---- MODULE Spec2Model ----
(***************************************************************************)
(* Aadhaar Pulse dashboard (src/app.py).  The program is one Streamlit     *)
(* script: every user interaction re-executes the whole script against the *)
(* two cached tables and the current widget values.  The state is the      *)
(* cached tables, the widget values and everything the last run computed   *)
(* and displayed.                                                          *)
(*                                                                         *)
(* Strings are sequences of one-character strings, so that str.lower() and *)
(* sorted() are computed character by character.  Months are period keys,  *)
(* modelled as integers; numeric columns are integers.  An absent value    *)
(* (Python None, a panel that is not drawn) is the empty sequence and a    *)
(* present value v is <<v>>.                                               *)
(***************************************************************************)
EXTENDS Integers, Sequences, FiniteSets

VARIABLES
    csv_monthly,        \* contents of aadhaar_phase2_intelligence_dataset.csv
    csv_forecast,       \* contents of aadhaar_phase3_forecast.csv
    monthly,            \* the monthly table of the last run (with data_quality_flag)
    forecast_df,        \* the forecast table of the last run
    dq_count,           \* number of flagged records
    dq_warning,         \* the mismatch warning banner is shown
    show_mismatch,      \* checkbox "Show administrative mismatch records"
    mismatch_view,      \* the flagged-records table, when shown
    use_dp,             \* checkbox "Enable Differential Privacy"
    states,             \* options of the State dropdown
    state_selected,
    districts,          \* options of the District dropdown
    district_selected,
    district_data,      \* rows of the selection, sorted by month
    latest,             \* the current row
    laplace,            \* the samples np.random.laplace returned in this run
    stress_score,       \* displayed scalar
    update_total,       \* displayed scalar
    forecast_data,
    predicted_value,
    forecast_chart,     \* the forecast chart is shown
    no_forecast_info,   \* "No forecast data available." is shown
    recommendation,     \* <<staff, devices, mobile_units>>, when shown
    extra_staff,
    extra_devices,
    extra_units,
    capacity_gain,
    new_load,           \* projected remaining workload, when shown
    latest_month,
    top_stress,         \* the ranked table
    page_error          \* the run stopped with an exception

vars == <<csv_monthly, csv_forecast, monthly, forecast_df, dq_count, dq_warning,
          show_mismatch, mismatch_view, use_dp, states, state_selected, districts,
          district_selected, district_data, latest, laplace, stress_score,
          update_total, forecast_data, predicted_value, forecast_chart,
          no_forecast_info, recommendation, extra_staff, extra_devices,
          extra_units, capacity_gain, new_load, latest_month, top_stress,
          page_error>>

None == <<>>

Some(v) == <<v>>

(***************************************************************************)
(* Strings                                                                 *)
(***************************************************************************)
UpperCase == <<"A","B","C","D","E","F","G","H","I","J","K","L","M",
               "N","O","P","Q","R","S","T","U","V","W","X","Y","Z">>

LowerCase == <<"a","b","c","d","e","f","g","h","i","j","k","l","m",
               "n","o","p","q","r","s","t","u","v","w","x","y","z">>

Letters == {UpperCase[i] : i \in DOMAIN UpperCase}
              \cup {LowerCase[i] : i \in DOMAIN LowerCase}

\* Code point order of the letters: upper case before lower case.
OrdMap ==
    [c \in Letters |->
        IF \E i \in DOMAIN UpperCase : UpperCase[i] = c
        THEN CHOOSE i \in DOMAIN UpperCase : UpperCase[i] = c
        ELSE Len(UpperCase) + (CHOOSE i \in DOMAIN LowerCase : LowerCase[i] = c)]

Ord(c) == OrdMap[c]

\* The lower case of each letter: an upper case letter maps to its lower case
\* counterpart, a lower case letter to itself.
LowerMap ==
    [c \in Letters |->
        IF \E i \in DOMAIN UpperCase : UpperCase[i] = c
        THEN LowerCase[CHOOSE i \in DOMAIN UpperCase : UpperCase[i] = c]
        ELSE c]

LowerChar(c) == LowerMap[c]

\* str.lower()
lower(s) == [i \in DOMAIN s |-> LowerChar(s[i])]

\* Python's < on str: lexicographic by code point.
StrLess(a, b) ==
    LET n == IF Len(a) < Len(b) THEN Len(a) ELSE Len(b)
        diff == {i \in 1..n : a[i] # b[i]}
    IN  IF diff = {}
        THEN Len(a) < Len(b)
        ELSE LET k == CHOOSE i \in diff : \A j \in diff : i <= j
             IN  Ord(a[k]) < Ord(b[k])

RECURSIVE sorted(_)
\* sorted() of a set of distinct strings
sorted(S) ==
    IF S = {} THEN <<>>
    ELSE LET m == CHOOSE x \in S : \A y \in S \ {x} : StrLess(x, y)
         IN  <<m>> \o sorted(S \ {m})

hyderabad == <<"h","y","d","e","r","a","b","a","d">>

telangana == <<"t","e","l","a","n","g","a","n","a">>

(***************************************************************************)
(* Table operations                                                        *)
(***************************************************************************)
\* Series.unique(): the distinct values of a column
unique(tbl, col) == {tbl[i][col] : i \in DOMAIN tbl}

\* monthly["data_quality_flag"] = False
AddFlagColumn(tbl) ==
    [i \in DOMAIN tbl |->
        [f \in DOMAIN tbl[i] \cup {"data_quality_flag"} |->
            IF f = "data_quality_flag" THEN FALSE ELSE tbl[i][f]]]

\* mutant: the state is compared without being lowered
mask_state_not_lowered(row) ==
    /\ lower(row.district) = hyderabad
    /\ row.state # telangana

\* the boolean mask of the data quality check, for one row
mask(row) ==
    /\ lower(row.district) = hyderabad
    /\ lower(row.state) # telangana

\* monthly.loc[mask, "data_quality_flag"] = True
SetFlagWhereMask(tbl) ==
    [i \in DOMAIN tbl |->
        IF mask(tbl[i]) THEN [tbl[i] EXCEPT !.data_quality_flag = TRUE]
        ELSE tbl[i]]

\* the data quality check as a whole
DataQualityCheck(tbl) == SetFlagWhereMask(AddFlagColumn(tbl))

\* monthly["data_quality_flag"].sum()
FlagSum(tbl) == Cardinality({i \in DOMAIN tbl : tbl[i].data_quality_flag})

\* mutant: the district is left out of the filter
FilterLocation_state_only(tbl, s, d) ==
    SelectSeq(tbl, LAMBDA r : r.state = s)

\* df[(df["state"] == s) & (df["district"] == d)]
FilterLocation(tbl, s, d) ==
    SelectSeq(tbl, LAMBDA r : r.state = s /\ r.district = d)

\* the order of two keys under the requested direction
KeyBefore(a, b, ascending) == IF ascending THEN a < b ELSE a > b

RECURSIVE InsertRow(_, _, _, _, _)
\* Insert row x into the sorted sequence: after every row that sorts before it;
\* among equal keys after them (original order kept) or, when the sort does not
\* keep the order of ties, before them.
InsertRow(srt, x, col, ascending, reverseTies) ==
    IF srt = <<>> THEN <<x>>
    ELSE LET h == Head(srt)
             goesFirst ==
                \/ KeyBefore(x[col], h[col], ascending)
                \/ (x[col] = h[col] /\ reverseTies)
         IN  IF goesFirst THEN <<x>> \o srt
             ELSE <<h>> \o InsertRow(Tail(srt), x, col, ascending, reverseTies)

RECURSIVE SortPrefix(_, _, _, _, _)
SortPrefix(tbl, n, col, ascending, reverseTies) ==
    IF n = 0 THEN <<>>
    ELSE InsertRow(SortPrefix(tbl, n - 1, col, ascending, reverseTies),
                   tbl[n], col, ascending, reverseTies)

\* mutant: the direction is ignored and the sort is always descending
sort_values_descending(tbl, col, ascending, reverseTies) ==
    SortPrefix(tbl, Len(tbl), col, FALSE, reverseTies)

\* DataFrame.sort_values(col, ascending=...).  The default sort kind does not
\* promise the order of rows with equal keys: reverseTies is the choice made.
sort_values(tbl, col, ascending, reverseTies) ==
    SortPrefix(tbl, Len(tbl), col, ascending, reverseTies)

\* whether two rows of the table share a key (only then the tie order matters)
HasTies(tbl, col) ==
    \E i, j \in DOMAIN tbl : i < j /\ tbl[i][col] = tbl[j][col]

TieChoices(tbl, col) == IF HasTies(tbl, col) THEN BOOLEAN ELSE {FALSE}

\* mutant: one row too many
head_one_more(tbl, n) == SubSeq(tbl, 1, IF Len(tbl) < n + 1 THEN Len(tbl) ELSE n + 1)

\* DataFrame.head(n)
head(tbl, n) == SubSeq(tbl, 1, IF Len(tbl) < n THEN Len(tbl) ELSE n)

\* DataFrame.iloc[-1]
iloc_last(tbl) == tbl[Len(tbl)]

\* monthly["month"].max()
ColumnMax(tbl, col) ==
    CHOOSE m \in unique(tbl, col) : \A x \in unique(tbl, col) : x <= m

\* st.selectbox: the value the user holds if it is an option, else the first option
\* (None when there is no option)
selectbox(options, value) ==
    IF options = <<>> THEN None
    ELSE IF \E i \in DOMAIN options : options[i] = value THEN value
    ELSE options[1]

(***************************************************************************)
(* The pure helpers of the script                                          *)
(***************************************************************************)
\* mutant: the result is not clamped at 0
apply_dp_noise_unclamped(value, noise) == value + noise

\* max(0, value + noise); noise is the sample np.random.laplace(0, 1/epsilon)
\* returned (epsilon is 1.0 at both call sites)
apply_dp_noise(value, noise) ==
    IF value + noise > 0 THEN value + noise ELSE 0

\* mutant: the quotient rounded down
CeilDiv_floor(p, d) == p \div d

\* int(np.ceil(p / d)): the quotient rounded up (\div rounds down)
CeilDiv(p, d) == IF p % d = 0 THEN p \div d ELSE (p \div d) + 1

recommend_resources(predicted_updates) ==
    <<CeilDiv(predicted_updates, 400),
      CeilDiv(predicted_updates, 250),
      CeilDiv(predicted_updates, 1000)>>

\* capacity_gain of the what-if simulation
CapacityGain(staff, devices, units) ==
    (staff * 400) + (devices * 250) + (units * 1000)

\* mutant: the difference is not floored at 0
RemainingLoad_unfloored(predicted, gain) == predicted - gain

\* max(predicted_value - capacity_gain, 0)
RemainingLoad(predicted, gain) ==
    IF predicted - gain > 0 THEN predicted - gain ELSE 0

\* mutant: the noisy values are written into the current row of the table
ApplyDP_in_place(tbl, lat, dp, n1, n2) ==
    LET x == IF dp THEN apply_dp_noise(lat.service_stress_score, n1)
             ELSE lat.service_stress_score
        u == IF dp THEN apply_dp_noise(lat.update_total, n2)
             ELSE lat.update_total
        k == CHOOSE i \in DOMAIN tbl : tbl[i] = lat
    IN  [monthly      |-> [tbl EXCEPT ![k].service_stress_score = x,
                                      ![k].update_total = u],
         stress_score |-> x,
         update_total |-> u]

\* The "Apply DP" block: the two scalars are read from the current row and,
\* with privacy on, each replaced by its noisy value with a sample of its own.
\* The scalars are locals: the table is left as it is.
ApplyDP(tbl, lat, dp, n1, n2) ==
    [monthly      |-> tbl,
     stress_score |-> IF dp THEN apply_dp_noise(lat.service_stress_score, n1)
                      ELSE lat.service_stress_score,
     update_total |-> IF dp THEN apply_dp_noise(lat.update_total, n2)
                      ELSE lat.update_total]

\* "predicted_value is not None"
IsNotNone(v) == v # None

\* "if predicted_value:" (Python truth value of None or a number)
Truthy(v) == v # None /\ v[1] # 0

\* load_data(): st.cache_data hands every run a fresh copy of the cached tables
load_data == <<csv_monthly, csv_forecast>>

\* monthly[monthly["state"] == state_selected]
RowsOfState(tbl, s) == SelectSeq(tbl, LAMBDA r : r.state = s)

\* monthly[monthly["month"] == latest_month]
RowsOfMonth(tbl, m) == SelectSeq(tbl, LAMBDA r : r.month = m)

\* monthly[monthly["data_quality_flag"]][[...columns...]]
FlaggedRows(tbl) ==
    LET f == SelectSeq(tbl, LAMBDA r : r.data_quality_flag)
    IN  [i \in DOMAIN f |->
            [state |-> f[i].state, district |-> f[i].district,
             month |-> f[i].month, update_total |-> f[i].update_total,
             service_stress_score |-> f[i].service_stress_score]]

\* the options of the two dropdowns and the selection they return
StateOptions(tbl) == sorted(unique(tbl, "state"))

\* mutant: the districts of every state are offered
DistrictOptions_all(tbl, s) == sorted(unique(tbl, "district"))

DistrictOptions(tbl, s) == sorted(unique(RowsOfState(tbl, s), "district"))

StateChoice(tbl, s) == selectbox(StateOptions(tbl), s)

DistrictChoice(tbl, s, d) ==
    selectbox(DistrictOptions(tbl, StateChoice(tbl, s)), d)

\* the rows of the selection before they are sorted
LocationRows(tbl, s, d) ==
    FilterLocation(tbl, StateChoice(tbl, s), DistrictChoice(tbl, s, d))

\* the rows of the globally latest month before they are ranked
LatestRows(tbl) == RowsOfMonth(tbl, ColumnMax(tbl, "month"))

(***************************************************************************)
(* One execution of the script, top to bottom, as a function of the cached *)
(* tables, the widget values, the two noise samples and the tie orders of  *)
(* the two sorts.  The result holds every value the run leaves behind.     *)
(***************************************************************************)
Script(data, sm, dp, s, d, es, ed, eu, n1, n2, t1, t2) ==
    LET m    == DataQualityCheck(data[1])
        fdf  == data[2]
        dq   == FlagSum(m)
        sts  == StateOptions(m)
        ssel == StateChoice(m, s)
        dsts == DistrictOptions(m, ssel)
        dsel == DistrictChoice(m, s, d)
        dd   == sort_values(LocationRows(m, s, d), "month", TRUE, t1)
        lat  == iloc_last(dd)
        fd   == FilterLocation(fdf, ssel, dsel)
        pv   == IF fd # <<>>
                THEN Some(iloc_last(fd).predicted_update_total)
                ELSE None
        gain == CapacityGain(es, ed, eu)
        lm   == ColumnMax(m, "month")
        \* iloc[-1] of an empty selection raises: the run ends at line 107
        \* and nothing below it is computed or drawn
        ok   == dd # <<>>
        shown == ApplyDP(m, lat, dp, n1, n2)
    IN  [monthly          |-> IF ok THEN shown.monthly ELSE m,
         forecast_df      |-> fdf,
         dq_count         |-> dq,
         dq_warning       |-> (dq > 0),
         show_mismatch    |-> sm,
         mismatch_view    |-> IF sm THEN Some(FlaggedRows(m)) ELSE None,
         use_dp           |-> dp,
         states           |-> sts,
         state_selected   |-> ssel,
         districts        |-> dsts,
         district_selected |-> dsel,
         district_data    |-> dd,
         page_error       |-> ~ok,
         latest           |-> IF ok THEN Some(lat) ELSE None,
         laplace          |-> IF ok /\ dp THEN <<n1, n2>> ELSE <<>>,
         stress_score     |-> IF ok THEN Some(shown.stress_score) ELSE None,
         update_total     |-> IF ok THEN Some(shown.update_total) ELSE None,
         forecast_data    |-> IF ok THEN fd ELSE <<>>,
         predicted_value  |-> IF ok THEN pv ELSE None,
         forecast_chart   |-> (ok /\ fd # <<>>),
         no_forecast_info |-> (ok /\ ~(fd # <<>>)),
         recommendation   |-> IF ok /\ IsNotNone(pv)
                              THEN Some(recommend_resources(pv[1]))
                              ELSE None,
         extra_staff      |-> es,
         extra_devices    |-> ed,
         extra_units      |-> eu,
         capacity_gain    |-> IF ok THEN Some(gain) ELSE None,
         new_load         |-> IF ok /\ Truthy(pv)
                              THEN Some(RemainingLoad(pv[1], gain))
                              ELSE None,
         latest_month     |-> IF ok THEN Some(lm) ELSE None,
         top_stress       |-> IF ok
                              THEN head(sort_values(LatestRows(m),
                                                    "service_stress_score",
                                                    FALSE, t2),
                                        20)
                              ELSE <<>>]

(***************************************************************************)
(* Bounds of the model                                                     *)
(***************************************************************************)
\* rows of a generated monthly table
MaxRows == 2

\* rows of a generated forecast table
MaxFRows == 2

\* magnitude of the noise samples tried
NoiseMag == 2

\* largest value a slider is moved to
MaxExtra == 1

\* rows of the large block of the ranking tables (more than the 20 kept)
BulkRows == 21

\* largest predicted demand of the recommendation inputs
MaxPredicted == 1001

Noise == {-NoiseMag, 0, NoiseMag}

\* the samples a run draws: none is drawn with privacy off
Draws(dp) == IF dp THEN Noise ELSE {0}

\* slider "Add Staff" 0..100, "Add Devices" 0..100, "Add Mobile Units" 0..20
StaffRange == {v \in 0..100 : v <= MaxExtra}

DeviceRange == {v \in 0..100 : v <= MaxExtra}

UnitRange == {v \in 0..20 : v <= MaxExtra}

(***************************************************************************)
(* Input tables                                                            *)
(***************************************************************************)
Telangana == <<"T","e","l","a","n","g","a","n","a">>

TELANGANA == <<"T","E","L","A","N","G","A","N","A">>

Goa == <<"G","o","a">>

Hyderabad == <<"H","y","d","e","r","a","b","a","d">>

Medak == <<"M","e","d","a","k">>

MRow(s, d, m, u, x) ==
    [state |-> s, district |-> d, month |-> m, update_total |-> u,
     service_stress_score |-> x]

FRow(s, d, m, p) ==
    [state |-> s, district |-> d, forecast_month |-> m,
     predicted_update_total |-> p]

MonthlyPool ==
    { MRow(Telangana, Hyderabad, 1, 5, 2),
      MRow(Telangana, Hyderabad, 2, 1, -1),
      MRow(Goa,       Hyderabad, 2, 0, 2),
      MRow(Telangana, Medak,     1, 3, 1),
      MRow(TELANGANA, hyderabad, 3, 2, 0),
      MRow(Goa,       Medak,     3, 4, 1) }

ForecastPool ==
    { FRow(Telangana, Hyderabad, 4, 1000),
      FRow(Telangana, Hyderabad, 5, 0),
      FRow(Telangana, Hyderabad, 5, 100),
      FRow(Goa,       Hyderabad, 4, -5) }

SeqsUpTo(S, n) == UNION {[1..k -> S] : k \in 0..n}

\* block of k rows of one district in month 2 whose scores repeat 0, 1, 2
Bulk(k) == [i \in 1..k |-> MRow(Goa, Medak, 2, i, i % 3)]

MonthlyTables == SeqsUpTo(MonthlyPool, MaxRows) \ {<<>>}

FixedForecast ==
    <<FRow(Telangana, Hyderabad, 4, 1000), FRow(Goa, Hyderabad, 4, 0)>>

FixedMonthly ==
    <<MRow(Telangana, Hyderabad, 1, 5, 2),
      MRow(Telangana, Hyderabad, 2, 1, -1),
      MRow(Goa,       Hyderabad, 2, 0, 2),
      MRow(Telangana, Medak,     1, 3, 1)>>

\* the tables of the sessions explored with every widget: the fixed table, and
\* the fixed table without its last row
SessionTables ==
    {FixedMonthly, SubSeq(FixedMonthly, 1, Len(FixedMonthly) - 1)}

ForecastTables == SeqsUpTo(ForecastPool, MaxFRows)

\* rows added to the block: an earlier month, the block's month with a score
\* of the block, a later month
RankPool ==
    { MRow(Telangana, Hyderabad, 1, 5, 2),
      MRow(Goa,       Hyderabad, 2, 0, 2),
      MRow(TELANGANA, hyderabad, 3, 2, 0) }

RankTables ==
    {Bulk(k) \o t : k \in (BulkRows - 2)..BulkRows,
                    t \in SeqsUpTo(RankPool, MaxRows)}

RecommendTables ==
    {<<FRow(Telangana, Hyderabad, 4, p)>> : p \in 0..MaxPredicted}

(***************************************************************************)
(* State after construction: the first run of the script, with every       *)
(* widget at its default (first option, unchecked, 0).                     *)
(***************************************************************************)
Start(cm, cf, r) ==
    /\ csv_monthly = cm
    /\ csv_forecast = cf
    /\ monthly = r.monthly
    /\ forecast_df = r.forecast_df
    /\ dq_count = r.dq_count
    /\ dq_warning = r.dq_warning
    /\ show_mismatch = r.show_mismatch
    /\ mismatch_view = r.mismatch_view
    /\ use_dp = r.use_dp
    /\ states = r.states
    /\ state_selected = r.state_selected
    /\ districts = r.districts
    /\ district_selected = r.district_selected
    /\ district_data = r.district_data
    /\ latest = r.latest
    /\ laplace = r.laplace
    /\ stress_score = r.stress_score
    /\ update_total = r.update_total
    /\ forecast_data = r.forecast_data
    /\ predicted_value = r.predicted_value
    /\ forecast_chart = r.forecast_chart
    /\ no_forecast_info = r.no_forecast_info
    /\ recommendation = r.recommendation
    /\ extra_staff = r.extra_staff
    /\ extra_devices = r.extra_devices
    /\ extra_units = r.extra_units
    /\ capacity_gain = r.capacity_gain
    /\ new_load = r.new_load
    /\ latest_month = r.latest_month
    /\ top_stress = r.top_stress
    /\ page_error = r.page_error

FirstRun(MT, FT) ==
    \E cm \in MT, cf \in FT :
        LET m == DataQualityCheck(cm)
        IN  \E t1 \in TieChoices(LocationRows(m, None, None), "month"),
               t2 \in TieChoices(LatestRows(m), "service_stress_score") :
                \E r \in {Script(<<cm, cf>>, FALSE, FALSE, None, None,
                                  0, 0, 0, 0, 0, t1, t2)} : Start(cm, cf, r)

Init == FirstRun(SessionTables, {FixedForecast})

InitSelect == FirstRun(MonthlyTables, {FixedForecast})

InitForecast == FirstRun({FixedMonthly}, ForecastTables)

InitRank == FirstRun(RankTables, {FixedForecast})

InitRecommend == FirstRun({FixedMonthly}, RecommendTables)

(***************************************************************************)
(* A rerun: the script executed again with the given widget values.        *)
(***************************************************************************)
Finish(r) ==
    /\ UNCHANGED <<csv_monthly, csv_forecast>>
    /\ monthly' = r.monthly
    /\ forecast_df' = r.forecast_df
    /\ dq_count' = r.dq_count
    /\ dq_warning' = r.dq_warning
    /\ show_mismatch' = r.show_mismatch
    /\ mismatch_view' = r.mismatch_view
    /\ use_dp' = r.use_dp
    /\ states' = r.states
    /\ state_selected' = r.state_selected
    /\ districts' = r.districts
    /\ district_selected' = r.district_selected
    /\ district_data' = r.district_data
    /\ latest' = r.latest
    /\ laplace' = r.laplace
    /\ stress_score' = r.stress_score
    /\ update_total' = r.update_total
    /\ forecast_data' = r.forecast_data
    /\ predicted_value' = r.predicted_value
    /\ forecast_chart' = r.forecast_chart
    /\ no_forecast_info' = r.no_forecast_info
    /\ recommendation' = r.recommendation
    /\ extra_staff' = r.extra_staff
    /\ extra_devices' = r.extra_devices
    /\ extra_units' = r.extra_units
    /\ capacity_gain' = r.capacity_gain
    /\ new_load' = r.new_load
    /\ latest_month' = r.latest_month
    /\ top_stress' = r.top_stress
    /\ page_error' = r.page_error

Run(sm, dp, s, d, es, ed, eu) ==
    LET m == DataQualityCheck(load_data[1])
    IN  \E n1 \in Draws(dp), n2 \in Draws(dp),
           t1 \in TieChoices(LocationRows(m, s, d), "month"),
           t2 \in TieChoices(LatestRows(m), "service_stress_score") :
            \E r \in {Script(load_data, sm, dp, s, d, es, ed, eu,
                              n1, n2, t1, t2)} : Finish(r)

(***************************************************************************)
(* User interactions.  Each one changes one widget and reruns the script.  *)
(***************************************************************************)
\* A new state is picked.  The district dropdown keeps its value only while
\* its option list is the same; with a new option list it starts at its first
\* option.
SelectState(s) ==
    /\ \E i \in DOMAIN states : states[i] = s
    /\ s # state_selected
    /\ Run(show_mismatch, use_dp, s,
           IF DistrictOptions(monthly, s) = districts
           THEN district_selected ELSE None,
           extra_staff, extra_devices, extra_units)

SelectDistrict(d) ==
    /\ \E i \in DOMAIN districts : districts[i] = d
    /\ d # district_selected
    /\ Run(show_mismatch, use_dp, state_selected, d,
           extra_staff, extra_devices, extra_units)

ToggleMismatch ==
    Run(~show_mismatch, use_dp, state_selected, district_selected,
        extra_staff, extra_devices, extra_units)

ToggleDP ==
    Run(show_mismatch, ~use_dp, state_selected, district_selected,
        extra_staff, extra_devices, extra_units)

SetStaff(v) ==
    /\ v # extra_staff
    /\ Run(show_mismatch, use_dp, state_selected, district_selected,
           v, extra_devices, extra_units)

SetDevices(v) ==
    /\ v # extra_devices
    /\ Run(show_mismatch, use_dp, state_selected, district_selected,
           extra_staff, v, extra_units)

SetUnits(v) ==
    /\ v # extra_units
    /\ Run(show_mismatch, use_dp, state_selected, district_selected,
           extra_staff, extra_devices, v)

\* the page is rerun with no widget changed
Rerun ==
    Run(show_mismatch, use_dp, state_selected, district_selected,
        extra_staff, extra_devices, extra_units)

Next ==
    \/ \E s \in unique(csv_monthly, "state") : SelectState(s)
    \/ \E d \in unique(csv_monthly, "district") : SelectDistrict(d)
    \/ ToggleMismatch
    \/ ToggleDP
    \/ \E v \in StaffRange : SetStaff(v)
    \/ \E v \in DeviceRange : SetDevices(v)
    \/ \E v \in UnitRange : SetUnits(v)
    \/ Rerun

\* every interaction, on the session tables
Spec == Init /\ [][Next]_vars

\* the location and data quality widgets, on generated monthly tables
NextSelect ==
    \/ \E s \in unique(csv_monthly, "state") : SelectState(s)
    \/ \E d \in unique(csv_monthly, "district") : SelectDistrict(d)
    \/ ToggleMismatch
    \/ Rerun

SpecSelect == InitSelect /\ [][NextSelect]_vars

\* the location widgets and the sliders, on generated forecast tables
NextForecast ==
    \/ \E s \in unique(csv_monthly, "state") : SelectState(s)
    \/ \E d \in unique(csv_monthly, "district") : SelectDistrict(d)
    \/ \E v \in StaffRange : SetStaff(v)
    \/ \E v \in DeviceRange : SetDevices(v)
    \/ \E v \in UnitRange : SetUnits(v)
    \/ Rerun

SpecForecast == InitForecast /\ [][NextForecast]_vars

\* the location widgets, on monthly tables with more rows than the ranking keeps
NextRank ==
    \/ \E s \in unique(csv_monthly, "state") : SelectState(s)
    \/ \E d \in unique(csv_monthly, "district") : SelectDistrict(d)
    \/ Rerun

SpecRank == InitRank /\ [][NextRank]_vars

\* the recommendation on every predicted demand up to MaxPredicted
NextRecommend ==
    \/ \E s \in unique(csv_monthly, "state") : SelectState(s)
    \/ \E d \in unique(csv_monthly, "district") : SelectDistrict(d)
    \/ Rerun

SpecRecommend == InitRecommend /\ [][NextRecommend]_vars

(***************************************************************************)
(* Properties                                                              *)
(***************************************************************************)
\* s is lit up to the case of its letters (lit is in lower case)
SameIgnoringCase(s, lit) ==
    /\ Len(s) = Len(lit)
    /\ \A i \in DOMAIN s :
          \/ s[i] = lit[i]
          \/ \E k \in DOMAIN LowerCase : LowerCase[k] = lit[i] /\ UpperCase[k] = s[i]

\* the condition of an administrative mismatch
Mismatch(row) ==
    /\ SameIgnoringCase(row.district, hyderabad)
    /\ ~SameIgnoringCase(row.state, telangana)

\* number of positions of seq that hold r
Count(seq, r) == Cardinality({i \in DOMAIN seq : seq[i] = r})

\* the columns a record was loaded with
Loaded(row) ==
    [state |-> row.state, district |-> row.district, month |-> row.month,
     update_total |-> row.update_total,
     service_stress_score |-> row.service_stress_score]

\* C1: after the flagging step every record's data_quality_flag is true iff its
\* district is "hyderabad" and its state is not "telangana", both compared in
\* lower case, and dq_count is the number of such records.
C1_FlagIffMismatch ==
    /\ \A i \in DOMAIN monthly :
          monthly[i].data_quality_flag = Mismatch(monthly[i])
    /\ dq_count = Cardinality({i \in DOMAIN monthly : Mismatch(monthly[i])})
    /\ dq_warning = (\E i \in DOMAIN monthly : Mismatch(monthly[i]))

\* C1 witness: a table that holds a flagged record and a Hyderabad record of
\* Telangana, written with capitals, that is not flagged.
C1_Witness ==
    /\ \E i \in DOMAIN monthly :
          monthly[i].data_quality_flag /\ monthly[i].district = Hyderabad
    /\ \E j \in DOMAIN monthly :
          /\ monthly[j].district = Hyderabad
          /\ monthly[j].state = Telangana
          /\ ~monthly[j].data_quality_flag
    /\ dq_count = 1

\* k is p / d rounded up
IsCeiling(k, p, d) == k * d >= p /\ (k - 1) * d < p

\* C2: for a predicted demand p >= 0 the recommendation is
\* (ceil(p/400), ceil(p/250), ceil(p/1000)), each a non-negative integer;
\* it is (0,0,0) for 0, (1,2,1) for 400 and (3,4,1) for 1000.
C2_RecommendIsCeiling ==
    (predicted_value # None /\ predicted_value[1] >= 0) =>
        /\ recommendation # None
        /\ LET p == predicted_value[1]
               r == recommendation[1]
           IN  /\ Len(r) = 3
               /\ r[1] \in Nat /\ r[2] \in Nat /\ r[3] \in Nat
               /\ IsCeiling(r[1], p, 400)
               /\ IsCeiling(r[2], p, 250)
               /\ IsCeiling(r[3], p, 1000)
               /\ (p = 0 => r = <<0, 0, 0>>)
               /\ (p = 400 => r = <<1, 2, 1>>)
               /\ (p = 1000 => r = <<3, 4, 1>>)

\* C2 witness: the recommendation shown for a predicted demand of 1000.
C2_Witness ==
    /\ predicted_value = Some(1000)
    /\ recommendation = Some(<<3, 4, 1>>)

GlobalLatest ==
    {i \in DOMAIN monthly : \A j \in DOMAIN monthly :
        monthly[j].month <= monthly[i].month}

\* C4: the ranked table holds min(20, n) rows, n the number of rows of the
\* maximum month of the whole table; every row of it is a row of that month,
\* the rows are in non-increasing order of service_stress_score, and no row
\* left out has a score strictly greater than a returned row.
C4_TopRisk ==
    ~page_error =>
        LET n == Cardinality(GlobalLatest)
        IN  /\ Len(top_stress) = IF n < 20 THEN n ELSE 20
            /\ \A k \in DOMAIN top_stress :
                  /\ \E i \in GlobalLatest : monthly[i] = top_stress[k]
                  /\ Count(top_stress, top_stress[k])
                        <= Cardinality({i \in GlobalLatest :
                                           monthly[i] = top_stress[k]})
            /\ \A k \in 1..(Len(top_stress) - 1) :
                  top_stress[k].service_stress_score
                     >= top_stress[k + 1].service_stress_score
            /\ \A i \in GlobalLatest :
                  Count(top_stress, monthly[i])
                     < Cardinality({j \in GlobalLatest : monthly[j] = monthly[i]})
                  => \A k \in DOMAIN top_stress :
                        top_stress[k].service_stress_score
                           >= monthly[i].service_stress_score

\* C4 witness: more than 20 rows of the latest month, 20 of them returned, a
\* row of an earlier month in the table and a row of the latest month left out.
C4_Witness ==
    /\ Cardinality(GlobalLatest) > 20
    /\ Len(top_stress) = 20
    /\ \E i \in DOMAIN monthly : i \notin GlobalLatest
    /\ \E i \in GlobalLatest : Count(top_stress, monthly[i]) = 0
    /\ top_stress[1].service_stress_score > top_stress[20].service_stress_score

\* C5: with noise injection enabled the two displayed scalars are
\* max(0, value + noise) of service_stress_score and update_total of the current
\* row, each with its own sample, and are never negative.
C5_NoiseClamped ==
    (use_dp /\ ~page_error) =>
        /\ Len(laplace) = 2
        /\ stress_score[1] >= 0
        /\ update_total[1] >= 0
        /\ stress_score[1] >= latest[1].service_stress_score + laplace[1]
        /\ update_total[1] >= latest[1].update_total + laplace[2]
        /\ \/ stress_score[1] = 0
           \/ stress_score[1] = latest[1].service_stress_score + laplace[1]
        /\ \/ update_total[1] = 0
           \/ update_total[1] = latest[1].update_total + laplace[2]

\* C5 witness: a negative score with a negative sample is shown as 0 while the
\* update total, with a different sample, is shown raised.
C5_Witness ==
    /\ use_dp
    /\ latest[1].service_stress_score < 0
    /\ laplace[1] < 0
    /\ laplace[2] > 0
    /\ stress_score = Some(0)
    /\ update_total = Some(latest[1].update_total + laplace[2])

\* the values of a sequence
Range(seq) == {seq[i] : i \in DOMAIN seq}

\* C6: the district options are exactly the distinct districts of the rows of
\* the selected state, and every (state, district) pair the two dropdowns can
\* offer matches a row of the monthly table: the selection is never empty.
C6_DistrictOptions ==
    /\ Range(states) = {monthly[i].state : i \in DOMAIN monthly}
    /\ Range(districts) =
          {monthly[i].district :
              i \in {j \in DOMAIN monthly : monthly[j].state = state_selected}}
    /\ Cardinality(Range(districts)) = Len(districts)
    /\ state_selected \in Range(states)
    /\ district_selected \in Range(districts)
    /\ \A s \in Range(states) :
          \A d \in Range(DistrictOptions(monthly, s)) :
             \E i \in DOMAIN monthly :
                monthly[i].state = s /\ monthly[i].district = d
    /\ district_data # <<>>
    /\ ~page_error

\* C6 witness: a table of two states whose districts differ, the second state
\* selected.
C6_Witness ==
    /\ Len(states) = 2
    /\ state_selected = states[2]
    /\ \E i \in DOMAIN monthly :
          /\ monthly[i].state # state_selected
          /\ monthly[i].district \notin Range(districts)

\* C7: district_data is exactly the rows of the selected state and district,
\* in ascending order of month, and the current row is the last of them, a
\* row of the maximum month of that state and district.
C7_SelectionSorted ==
    ~page_error =>
        /\ \A i \in DOMAIN monthly :
              Count(district_data, monthly[i]) =
                 IF /\ monthly[i].state = state_selected
                    /\ monthly[i].district = district_selected
                 THEN Count(monthly, monthly[i]) ELSE 0
        /\ \A k \in DOMAIN district_data :
              \E i \in DOMAIN monthly : monthly[i] = district_data[k]
        /\ \A k \in 1..(Len(district_data) - 1) :
              district_data[k].month <= district_data[k + 1].month
        /\ latest = Some(district_data[Len(district_data)])
        /\ \A i \in DOMAIN monthly :
              (monthly[i].state = state_selected
                 /\ monthly[i].district = district_selected)
              => monthly[i].month <= latest[1].month

\* C7 witness: a selection of two rows that the table holds latest month first.
C7_Witness ==
    /\ Len(district_data) = 2
    /\ Len(monthly) = 2
    /\ monthly[1].month > monthly[2].month
    /\ latest = Some(monthly[1])

\* the selection has a row in the forecast table
HasForecast ==
    \E i \in DOMAIN csv_forecast :
        /\ csv_forecast[i].state = state_selected
        /\ csv_forecast[i].district = district_selected

\* C8: without a matching forecast row the run completes and shows the
\* placeholder and no chart, no recommendation and no simulation result; with
\* one it shows the chart and not the placeholder; never both.
C8_MissingForecast ==
    /\ ~page_error
    /\ ~HasForecast =>
          /\ no_forecast_info
          /\ ~forecast_chart
          /\ recommendation = None
          /\ new_load = None
    /\ HasForecast => (forecast_chart /\ ~no_forecast_info)
    /\ ~(forecast_chart /\ no_forecast_info)

\* C8 witness: a selection without a forecast row while another location has
\* one, and a slider moved.
C8_Witness ==
    /\ ~HasForecast
    /\ csv_forecast # <<>>
    /\ extra_staff > 0
    /\ no_forecast_info

\* C9: through every interaction and rerun the records of the two tables keep
\* their loaded values, noise changes only the two displayed scalars, and
\* every record keeps its data_quality_flag.
C9_TablesReadOnly ==
    /\ [](/\ Len(monthly) = Len(csv_monthly)
          /\ \A i \in DOMAIN monthly : Loaded(monthly[i]) = csv_monthly[i]
          /\ forecast_df = csv_forecast)
    /\ [][/\ monthly' = monthly
          /\ forecast_df' = forecast_df
          /\ csv_monthly' = csv_monthly
          /\ csv_forecast' = csv_forecast]_vars

\* C9 witness: noise shown on the current row's score, the flagged records
\* listed, a slider moved and another state selected.
C9_Witness ==
    /\ use_dp
    /\ stress_score # Some(latest[1].service_stress_score)
    /\ show_mismatch
    /\ extra_units > 0
    /\ Len(states) = 2
    /\ state_selected = states[2]
    /\ \A i \in DOMAIN monthly : Loaded(monthly[i]) = csv_monthly[i]

\* C10: the simulation result is shown if and only if the recommendation is
\* shown, both exactly when the selection has a forecast row, a predicted
\* value of 0 included.
C10_ShownTogether ==
    /\ (new_load # None) = (recommendation # None)
    /\ (recommendation # None) = HasForecast

====
